---- MODULE Spec2Model ----
(***************************************************************************)
(* Model of jmetal/util/laboratory.py: Job.execute, Experiment.run and     *)
(* compute_quality_indicator.                                              *)
(*                                                                         *)
(* SpecExperiment: Experiment.run over a list of jobs with a               *)
(*   ProcessPoolExecutor of m_workers workers.                             *)
(* SpecScan: compute_quality_indicator over a result tree                  *)
(*   <base>/<algorithm>/<problem>/{FUN,VAR}.<run>.ps.                      *)
(***************************************************************************)
EXTENDS Integers, Sequences, FiniteSets, TLC

\* ---------------------------------------------------------------- bounds
MaxJobs == 3
MaxWorkers == 2
MaxRun == 1
NumRuns == 2

\* ------------------------------------------------------------ vocabulary
Tags == {"NSGAII", "SMPSO"}
RunTags == 0..MaxRun
JobSet == [algorithm_tag : Tags, run_tag : RunTags]
JobLists == UNION {[1..n -> JobSet] : n \in 1..MaxJobs}

Range(s) == {s[i] : i \in DOMAIN s}

\* os.path.join(path, 'FUN.{}.ps'.format(self.run_tag)): the file name holds
\* the artifact kind and the run tag only; path is the same base directory
\* for every job.
FunFileName(job) == <<"FUN", job.run_tag>>
\* the FUN name used a second time
VarFileName_fun(job) == <<"FUN", job.run_tag>>
VarFileName(job) == <<"VAR", job.run_tag>>
ArtifactNames == {"FUN", "VAR"} \X RunTags

VARIABLES
  \* Experiment
  jobs,        \* self.jobs
  m_workers,   \* self.m_workers
  pc,          \* position of the caller of Experiment.run
  job_i,       \* index in self.jobs of the job of the current loop iteration
  phase,       \* per job: position inside Job.execute
  thread,      \* per job: the thread its execute runs on
  disk,        \* base_directory: file name -> sequence of the jobs that wrote it
  work_items,  \* what was handed to executor.submit, with the state of its future
  raised,      \* exception propagating out of Experiment.run (0 = none, else job index)
  \* compute_quality_indicator
  fronts,      \* problems whose <reference_fronts>/<problem>.pf exists
  bad,         \* the malformed FUN file of the tree, if any
  spc,         \* position of compute_quality_indicator
  cur_dir,     \* dirname of the current os.walk step
  todo,        \* filenames of the current directory not yet visited
  dirs_left,   \* directories os.walk has not yielded yet
  cur_file,    \* filename of the current inner-loop iteration
  ind_i,       \* index in quality_indicators of the current indicator
  reference_front, \* per indicator: the value of its reference_front attribute
  handle,      \* the open file object `of`: position and contents list
  qi,          \* per directory and indicator name: lines of QI.<name>
  qi_exists,   \* per directory and indicator name: the file exists
  tree,        \* the <algorithm>/<problem> directories under input_data
  calls,       \* which call of compute_quality_indicator on the tree this is
  other,       \* the local state of a second, suspended invocation
  \* create_tables_from_experiment
  tpc,         \* position of create_tables_from_experiment
  tdirs_left,  \* directories its os.walk has not yielded yet
  df,          \* the data frame: one row per appended new_data
  table,       \* the data frame after groupby(['problem', 'run']).mean()
  \* compute_statistical_analysis
  apc,         \* position of compute_statistical_analysis
  groups_left, \* problems of df.groupby(level=0) not yet tested
  samples,     \* the arguments of the last call of the scipy test
  result       \* the verdict data frame: one row per appended test

evars == <<jobs, m_workers, pc, job_i, phase, thread, disk, work_items, raised>>
svars == <<fronts, bad, spc, cur_dir, todo, dirs_left, cur_file, ind_i,
           reference_front, handle, qi, qi_exists>>
cvars == <<tree, calls, other>>
tvars == <<tpc, tdirs_left, df, table>>
avars == <<apc, groups_left, samples, result>>
vars == <<evars, svars, cvars, tvars, avars>>

\* ======================================================== Experiment.run
JobIds == DOMAIN jobs

\* jobs whose execute has started and has neither returned nor raised
InProgress == {j \in JobIds : phase[j] \in {"started", "ran", "fun"}}

\* with ProcessPoolExecutor(max_workers=self.m_workers) as executor:
EnterWith ==
  /\ pc = "ready"
  /\ pc' = "loop"
  /\ job_i' = 1
  /\ UNCHANGED <<jobs, m_workers, phase, thread, disk, work_items, raised>>
  /\ UNCHANGED <<svars, cvars, tvars, avars>>

\* A background start of the job: no wait for it and no pool slot taken.
CallExecute_detached ==
  /\ pc = "loop"
  /\ job_i <= Len(jobs)
  /\ phase' = [phase EXCEPT ![job_i] = "started"]
  /\ thread' = [thread EXCEPT ![job_i] = "detached"]
  /\ job_i' = job_i + 1
  /\ UNCHANGED <<jobs, m_workers, pc, disk, work_items, raised>>
  /\ UNCHANGED <<svars, cvars, tvars, avars>>

\* The callable itself is handed to the pool; the future is dropped.
CallExecute_lazy ==
  /\ pc = "loop"
  /\ job_i <= Len(jobs)
  /\ work_items' = Append(work_items, [fn |-> job_i, state |-> "queued", exc |-> "none"])
  /\ job_i' = job_i + 1
  /\ UNCHANGED <<jobs, m_workers, pc, phase, thread, disk, raised>>
  /\ UNCHANGED <<svars, cvars, tvars, avars>>

\* for job in self.jobs: executor.submit(job.execute(self.base_directory))
\* The argument of submit is a call expression: the caller evaluates
\* job.execute(...) itself before submit is entered.
CallExecute ==
  /\ pc = "loop"
  /\ job_i <= Len(jobs)
  /\ phase' = [phase EXCEPT ![job_i] = "started"]
  /\ thread' = [thread EXCEPT ![job_i] = "caller"]
  /\ pc' = "execute"
  /\ UNCHANGED <<jobs, m_workers, job_i, disk, work_items, raised>>
  /\ UNCHANGED <<svars, cvars, tvars, avars>>

\* self.algorithm.run(): returns, or raises. Nothing in execute or in
\* Experiment.run catches the exception: on the caller's thread it leaves the
\* for loop and reaches the exit of the with block.
AlgorithmRun(j) ==
  /\ phase[j] = "started"
  /\ \/ /\ phase' = [phase EXCEPT ![j] = "ran"]
        /\ UNCHANGED <<pc, raised>>
     \/ /\ phase' = [phase EXCEPT ![j] = "failed"]
        /\ IF thread[j] = "caller"
             THEN pc' = "exit" /\ raised' = j
             ELSE UNCHANGED <<pc, raised>>
  /\ UNCHANGED <<jobs, m_workers, job_i, thread, disk, work_items>>
  /\ UNCHANGED <<svars, cvars, tvars, avars>>

\* print_function_values_to_file(self.algorithm.get_result(), file_name=FUN.<run>.ps)
PrintFunctionValues(j) ==
  /\ phase[j] = "ran"
  /\ phase' = [phase EXCEPT ![j] = "fun"]
  /\ disk' = [disk EXCEPT ![FunFileName(jobs[j])] = Append(@, j)]
  /\ UNCHANGED <<jobs, m_workers, pc, job_i, thread, work_items, raised>>
  /\ UNCHANGED <<svars, cvars, tvars, avars>>

\* print_variables_to_file(self.algorithm.get_result(), file_name=VAR.<run>.ps)
PrintVariables(j) ==
  /\ phase[j] = "fun"
  /\ phase' = [phase EXCEPT ![j] = "done"]
  /\ disk' = [disk EXCEPT ![VarFileName(jobs[j])] = Append(@, j)]
  /\ UNCHANGED <<jobs, m_workers, pc, job_i, thread, work_items, raised>>
  /\ UNCHANGED <<svars, cvars, tvars, avars>>

\* executor.submit(<value of job.execute(...)>): execute has no return
\* statement, so the work item's callable is None.
ExecutorSubmit ==
  /\ pc = "execute"
  /\ phase[job_i] = "done"
  /\ work_items' = Append(work_items, [fn |-> 0, state |-> "queued", exc |-> "none"])
  /\ job_i' = job_i + 1
  /\ pc' = "loop"
  /\ UNCHANGED <<jobs, m_workers, phase, thread, disk, raised>>
  /\ UNCHANGED <<svars, cvars, tvars, avars>>

\* the for loop is exhausted
LoopEnd ==
  /\ pc = "loop"
  /\ job_i > Len(jobs)
  /\ pc' = "exit"
  /\ UNCHANGED <<jobs, m_workers, job_i, phase, thread, disk, work_items, raised>>
  /\ UNCHANGED <<svars, cvars, tvars, avars>>

Busy == {i \in DOMAIN work_items : work_items[i].state = "running"}

\* A pool worker takes a queued work item; at most max_workers are busy.
\* fn = 0 is None; another fn is the job whose execute the worker calls.
WorkerTake(i) ==
  /\ pc \in {"loop", "execute", "exit"}
  /\ i \in DOMAIN work_items
  /\ work_items[i].state = "queued"
  /\ \A k \in 1..(i - 1) : work_items[k].state # "queued"
  /\ Cardinality(Busy) < m_workers
  /\ work_items' = [work_items EXCEPT ![i].state = "running"]
  /\ IF work_items[i].fn = 0
       THEN UNCHANGED <<phase, thread>>
       ELSE /\ phase' = [phase EXCEPT ![work_items[i].fn] = "started"]
            /\ thread' = [thread EXCEPT ![work_items[i].fn] = "worker"]
  /\ UNCHANGED <<jobs, m_workers, pc, job_i, disk, raised>>
  /\ UNCHANGED <<svars, cvars, tvars, avars>>

\* The worker's call ends: calling None raises TypeError, which is stored in
\* the future; a job's exception is stored in its future as well.
WorkerFinish(i) ==
  /\ i \in DOMAIN work_items
  /\ work_items[i].state = "running"
  /\ IF work_items[i].fn = 0
       THEN work_items' = [work_items EXCEPT ![i].state = "done", ![i].exc = "TypeError"]
       ELSE /\ phase[work_items[i].fn] \in {"done", "failed"}
            /\ work_items' = [work_items EXCEPT ![i].state = "done",
                 ![i].exc = IF phase[work_items[i].fn] = "failed" THEN "JobError" ELSE "none"]
  /\ UNCHANGED <<jobs, m_workers, pc, job_i, phase, thread, disk, raised>>
  /\ UNCHANGED <<svars, cvars, tvars, avars>>

\* executor.__exit__: shutdown(wait=True) waits for every work item, then
\* the pending exception, if any, leaves run(). No future is examined.
ExitWith ==
  /\ pc = "exit"
  /\ \A i \in DOMAIN work_items : work_items[i].state = "done"
  /\ pc' = IF raised = 0 THEN "returned" ELSE "raised"
  /\ UNCHANGED <<jobs, m_workers, job_i, phase, thread, disk, work_items, raised>>
  /\ UNCHANGED <<svars, cvars, tvars, avars>>

\* Experiment(base_directory, jobs, m_workers) constructed, run() not called
ExperimentReady ==
  /\ pc = "ready"
  /\ job_i = 0
  /\ phase = [j \in DOMAIN jobs |-> "pending"]
  /\ thread = [j \in DOMAIN jobs |-> "none"]
  /\ disk = [f \in ArtifactNames |-> <<>>]
  /\ work_items = <<>>
  /\ raised = 0

InitExperiment ==
  /\ jobs \in JobLists
  /\ m_workers \in 1..MaxWorkers
  /\ ExperimentReady

NextExperiment ==
  \/ EnterWith
  \/ CallExecute
  \/ \E j \in JobIds : AlgorithmRun(j)
  \/ \E j \in JobIds : PrintFunctionValues(j)
  \/ \E j \in JobIds : PrintVariables(j)
  \/ ExecutorSubmit
  \/ LoopEnd
  \/ \E i \in DOMAIN work_items : WorkerTake(i)
  \/ \E i \in DOMAIN work_items : WorkerFinish(i)
  \/ ExitWith

\* ============================================= compute_quality_indicator
Problems == {"ZDT1", "ZDT2"}
\* <base_dir>/<algorithm>/<problem>: the directories that hold files
Dirs == {<<"NSGAII", "ZDT1">>, <<"NSGAII", "ZDT2">>, <<"SMPSO", "ZDT1">>}
NoFront == "None"

\* quality_indicators: one indicator with a reference_front attribute and
\* one without
Indicators == <<[name |-> "IGD", has_reference_front |-> TRUE],
                [name |-> "HV", has_reference_front |-> FALSE]>>
IndicatorNames == {Indicators[i].name : i \in DOMAIN Indicators}

\* File names are sequences of the tokens that '.' separates.
DigitStr == <<"0", "1", "2", "3", "4", "5", "6", "7", "8", "9">>
FunName(r) == <<"FUN", DigitStr[r + 1], "ps">>
VarName(r) == <<"VAR", DigitStr[r + 1], "ps">>
\* the name src/script.py gives its objective-value file
ScriptFunName == <<"FUN", "NSGAII", "ZDT1">>
ScanRuns == 0..(NumRuns - 1)

NoBad == [kind |-> "none", dir |-> <<"", "">>, name |-> <<>>]
BadFiles ==
  {NoBad}
  \cup {[kind |-> "corrupt", dir |-> d, name |-> FunName(r)] : d \in Dirs, r \in ScanRuns}
  \cup {[kind |-> "nodigit", dir |-> d, name |-> ScriptFunName] : d \in Dirs}

\* os.walk's filenames for a leaf directory: the artifacts and the QI files
\* that exist when the directory is listed
FileNames(d) ==
  {FunName(r) : r \in ScanRuns} \cup {VarName(r) : r \in ScanRuns}
  \cup (IF bad.kind = "nodigit" /\ bad.dir = d THEN {bad.name} ELSE {})
  \cup {<<"QI", n>> : n \in {m \in IndicatorNames : qi_exists[d][m]}}

\* 'FUN' in filename
ContainsFUN(filename) == \E i \in DOMAIN filename : filename[i] = "FUN"

\* s.isdigit() and int(s) on one token
IsDigit(s) == \E i \in DOMAIN DigitStr : DigitStr[i] = s
IntOf(s) == (CHOOSE i \in DOMAIN DigitStr : DigitStr[i] = s) - 1

\* [int(s) for s in filename.split('.') if s.isdigit()]
DigitTokens(filename) ==
  LET F[i \in 0..Len(filename)] ==
        IF i = 0 THEN <<>>
        ELSE IF IsDigit(filename[i]) THEN Append(F[i - 1], IntOf(filename[i]))
        ELSE F[i - 1]
  IN F[Len(filename)]

\* read_solutions(os.path.join(dirname, filename)) fails on this file
Corrupt(d, filename) == bad.kind = "corrupt" /\ bad.dir = d /\ bad.name = filename

\* a stream positioned at the start of the file, as 'r+' gives
OpenPosition_start(lines) == 0
\* open(..., 'a+'): the stream is positioned at the end of the file
OpenPosition(lines) == Len(lines)

\* of.readlines(): the lines from the current position to the end
ReadLines(lines, pos) == SubSeq(lines, pos + 1, Len(lines))

\* list.insert(index, x) for index >= 0: an index past the end appends
ListInsert(s, index, x) ==
  LET k == IF index > Len(s) THEN Len(s) ELSE index
  IN SubSeq(s, 1, k) \o <<x>> \o SubSeq(s, k + 1, Len(s))

\* of.seek(0); of.writelines(contents) on a stream opened for appending:
\* every write goes to the end of the file, whatever the position
WriteLines(lines, pos, contents) == lines \o contents

\* str(indicator.compute(solutions)) + '\n': the line records the file the
\* solutions were read from and the front the indicator held
ComputeLine(d, filename, i) ==
  [dir |-> d, name |-> filename, front |-> reference_front[i]]

Closed == [open |-> FALSE, pos |-> 0, contents |-> <<>>]

StartScan ==
  /\ spc = "ready"
  /\ spc' = "walk"
  /\ UNCHANGED <<fronts, bad, cur_dir, todo, dirs_left, cur_file, ind_i,
                 reference_front, handle, qi, qi_exists>>
  /\ UNCHANGED <<evars, cvars, tvars, avars>>

\* for dirname, _, filenames in os.walk(input_data): top-down, so the
\* problem directories of one algorithm directory come one after another;
\* the order among siblings is the file system's.
WalkDir(d) ==
  /\ spc = "walk"
  /\ d \in dirs_left
  /\ (\E e \in dirs_left : e[1] = cur_dir[1]) => d[1] = cur_dir[1]
  /\ cur_dir' = d
  /\ dirs_left' = dirs_left \ {d}
  /\ todo' = FileNames(d)
  /\ spc' = "files"
  /\ UNCHANGED <<fronts, bad, cur_file, ind_i, reference_front, handle, qi, qi_exists>>
  /\ UNCHANGED <<evars, cvars, tvars, avars>>

WalkEnd ==
  /\ spc = "walk"
  /\ dirs_left = {}
  /\ spc' = "done"
  /\ UNCHANGED <<fronts, bad, cur_dir, todo, dirs_left, cur_file, ind_i,
                 reference_front, handle, qi, qi_exists>>
  /\ UNCHANGED <<evars, cvars, tvars, avars>>

\* A file that cannot be parsed is skipped and the scan goes on.
NextFile_skip(filename) ==
  /\ spc = "files"
  /\ filename \in todo
  /\ todo' = todo \ {filename}
  /\ cur_file' = filename
  /\ IF ContainsFUN(filename) /\ ~Corrupt(cur_dir, filename) /\ DigitTokens(filename) # <<>>
       THEN spc' = "indicator" /\ ind_i' = 1
       ELSE UNCHANGED <<spc, ind_i>>
  /\ UNCHANGED <<fronts, bad, cur_dir, dirs_left, reference_front, handle, qi, qi_exists>>
  /\ UNCHANGED <<evars, cvars, tvars, avars>>

\* for filename in filenames: ... if 'FUN' in filename:
\*     solutions = read_solutions(os.path.join(dirname, filename))
\* A file without the marker is passed over; a parse error leaves the function.
NextFile(filename) ==
  /\ spc = "files"
  /\ filename \in todo
  /\ todo' = todo \ {filename}
  /\ cur_file' = filename
  /\ IF ~ContainsFUN(filename)
       THEN UNCHANGED <<spc, ind_i>>
       ELSE IF Corrupt(cur_dir, filename)
         THEN spc' = "raised" /\ UNCHANGED ind_i
         ELSE spc' = "indicator" /\ ind_i' = 1
  /\ UNCHANGED <<fronts, bad, cur_dir, dirs_left, reference_front, handle, qi, qi_exists>>
  /\ UNCHANGED <<evars, cvars, tvars, avars>>

\* filenames of the directory exhausted
DirEnd ==
  /\ spc = "files"
  /\ todo = {}
  /\ spc' = "walk"
  /\ UNCHANGED <<fronts, bad, cur_dir, todo, dirs_left, cur_file, ind_i,
                 reference_front, handle, qi, qi_exists>>
  /\ UNCHANGED <<evars, cvars, tvars, avars>>

\* for indicator in quality_indicators: exhausted
IndicatorsEnd ==
  /\ spc = "indicator"
  /\ ind_i > Len(Indicators)
  /\ spc' = "files"
  /\ UNCHANGED <<fronts, bad, cur_dir, todo, dirs_left, cur_file, ind_i,
                 reference_front, handle, qi, qi_exists>>
  /\ UNCHANGED <<evars, cvars, tvars, avars>>

\* if hasattr(indicator, 'reference_front'):
\*     if Path(reference_front_file).is_file(): indicator.reference_front = read_solutions(...)
\*     else: LOGGER.warning(...)
\* The else branch leaves the attribute as it is.
BindReferenceFront ==
  /\ spc = "indicator"
  /\ ind_i <= Len(Indicators)
  /\ IF Indicators[ind_i].has_reference_front /\ cur_dir[2] \in fronts
       THEN reference_front' = [reference_front EXCEPT ![ind_i] = cur_dir[2]]
       ELSE UNCHANGED reference_front
  /\ spc' = "bound"
  /\ UNCHANGED <<fronts, bad, cur_dir, todo, dirs_left, cur_file, ind_i, handle, qi, qi_exists>>
  /\ UNCHANGED <<evars, cvars, tvars, avars>>

\* with open('{}/QI.{}'.format(dirname, indicator.get_name()), 'a+') as of:
\* creates the file when it does not exist
OpenQI ==
  /\ spc = "bound"
  /\ LET n == Indicators[ind_i].name IN
       /\ handle' = [open |-> TRUE, pos |-> OpenPosition(qi[cur_dir][n]), contents |-> <<>>]
       /\ qi_exists' = [qi_exists EXCEPT ![cur_dir][n] = TRUE]
  /\ spc' = "opened"
  /\ UNCHANGED <<fronts, bad, cur_dir, todo, dirs_left, cur_file, ind_i, reference_front, qi>>
  /\ UNCHANGED <<evars, cvars, tvars, avars>>

\* index = [int(s) for s in filename.split('.') if s.isdigit()].pop()
\* contents = of.readlines()
\* contents.insert(index, str(indicator.compute(solutions)) + '\n')
\* pop() on an empty list raises IndexError; the with block closes the file.
InsertLine ==
  /\ spc = "opened"
  /\ LET n == Indicators[ind_i].name
         digits == DigitTokens(cur_file)
     IN IF digits = <<>>
          THEN /\ spc' = "raised"
               /\ handle' = Closed
          ELSE /\ spc' = "inserted"
               /\ handle' = [handle EXCEPT !.contents =
                    ListInsert(ReadLines(qi[cur_dir][n], handle.pos),
                               digits[Len(digits)],
                               ComputeLine(cur_dir, cur_file, ind_i))]
  /\ UNCHANGED <<fronts, bad, cur_dir, todo, dirs_left, cur_file, ind_i,
                 reference_front, qi, qi_exists>>
  /\ UNCHANGED <<evars, cvars, tvars, avars>>

\* of.seek(0); of.writelines(contents); the with block closes the file
WriteBack ==
  /\ spc = "inserted"
  /\ LET n == Indicators[ind_i].name IN
       qi' = [qi EXCEPT ![cur_dir][n] = WriteLines(@, 0, handle.contents)]
  /\ handle' = Closed
  /\ ind_i' = ind_i + 1
  /\ spc' = "indicator"
  /\ UNCHANGED <<fronts, bad, cur_dir, todo, dirs_left, cur_file, reference_front, qi_exists>>
  /\ UNCHANGED <<evars, cvars, tvars, avars>>

\* compute_quality_indicator not called, no QI file in the tree
ScanReady ==
  /\ spc = "ready"
  /\ cur_dir = <<"", "">>
  /\ todo = {}
  /\ dirs_left = tree
  /\ cur_file = <<>>
  /\ ind_i = 0
  /\ reference_front = [i \in DOMAIN Indicators |-> NoFront]
  /\ handle = Closed
  /\ qi = [d \in Dirs |-> [n \in IndicatorNames |-> <<>>]]
  /\ qi_exists = [d \in Dirs |-> [n \in IndicatorNames |-> FALSE]]

\* the local variables of an invocation of compute_quality_indicator
Locals ==
  [spc |-> spc, cur_dir |-> cur_dir, todo |-> todo, dirs_left |-> dirs_left,
   cur_file |-> cur_file, ind_i |-> ind_i, reference_front |-> reference_front,
   handle |-> handle]
\* an invocation that has not started
ReadyLocals ==
  [spc |-> "ready", cur_dir |-> <<"", "">>, todo |-> {}, dirs_left |-> tree,
   cur_file |-> <<>>, ind_i |-> 0,
   reference_front |-> [i \in DOMAIN Indicators |-> NoFront], handle |-> Closed]

\* a single invocation, the first on the tree
OneCaller == calls = "first" /\ other = ReadyLocals

\* create_tables_from_experiment and compute_statistical_analysis not called
NoTable == tpc = "ready" /\ tdirs_left = {} /\ df = <<>> /\ table = <<>>
NoAnalysis == apc = "ready" /\ groups_left = {} /\ samples = <<>> /\ result = <<>>

InitScan ==
  /\ fronts \in SUBSET Problems
  /\ bad \in BadFiles
  /\ tree = Dirs
  /\ ScanReady
  /\ OneCaller
  /\ NoTable
  /\ NoAnalysis

\* compute_quality_indicator is called a second time on the tree, with the
\* same indicator objects and the QI files of the first call in place
CallAgain ==
  /\ spc = "done"
  /\ calls = "first"
  /\ calls' = "second"
  /\ spc' = "walk"
  /\ dirs_left' = tree
  /\ cur_dir' = <<"", "">>
  /\ UNCHANGED <<fronts, bad, todo, cur_file, ind_i, reference_front, handle, qi, qi_exists>>
  /\ UNCHANGED <<tree, other>>
  /\ UNCHANGED <<evars, tvars, avars>>

\* The scheduler suspends the running invocation and resumes the other one:
\* the two invocations share the files and nothing else. A switch is taken
\* where the running invocation is about to list a directory or to open,
\* read or write a QI file, or has ended; its other steps are local.
ContextSwitch ==
  /\ spc \in {"ready", "walk", "bound", "opened", "inserted", "done", "raised"}
  /\ other.spc \notin {"done", "raised"}
  /\ other' = Locals
  /\ spc' = other.spc
  /\ cur_dir' = other.cur_dir
  /\ todo' = other.todo
  /\ dirs_left' = other.dirs_left
  /\ cur_file' = other.cur_file
  /\ ind_i' = other.ind_i
  /\ reference_front' = other.reference_front
  /\ handle' = other.handle
  /\ UNCHANGED <<fronts, bad, qi, qi_exists, tree, calls>>
  /\ UNCHANGED <<evars, tvars, avars>>

NextScan ==
  \/ StartScan
  \/ \E d \in Dirs : WalkDir(d)
  \/ WalkEnd
  \/ \E filename \in todo : NextFile(filename)
  \/ DirEnd
  \/ IndicatorsEnd
  \/ BindReferenceFront
  \/ OpenQI
  \/ InsertLine
  \/ WriteBack

\* ========================================= create_tables_from_experiment
MaxLines == 2
MaxFiles == 3

\* the text of a line of an indicator file
Vals == {"1", "2"}
\* float(value)
ParseFloat(line) == IntOf(line)
\* 'QI' in filename
ContainsQI(filename) == \E i \in DOMAIN filename : filename[i] = "QI"

\* the orders in which a listing can give the names of S
Orders(S) == {f \in [1..Cardinality(S) -> S] : \A i, j \in DOMAIN f : i # j => f[i] # f[j]}

\* for index, value in enumerate(contents): one new_data per line, with the
\* columns 'problem', 'run' and <filename>
RowsOfFile(d, filename) ==
  LET contents == qi[d][filename[2]]
  IN [i \in DOMAIN contents |->
        [problem |-> d[2], run |-> i - 1, column |-> filename,
         value |-> ParseFloat(contents[i])]]

\* the rows of the files fs[1..k] of directory d, in that order
RECURSIVE RowsOfFiles(_, _, _)
RowsOfFiles(d, fs, k) ==
  IF k = 0 THEN <<>>
  ELSE RowsOfFiles(d, fs, k - 1) \o
       (IF ContainsQI(fs[k]) THEN RowsOfFile(d, fs[k]) ELSE <<>>)

\* the value columns of a data frame, in the order df.append created them
RECURSIVE ColumnsOf(_, _)
ColumnsOf(rows, k) ==
  IF k = 0 THEN <<>>
  ELSE LET cs == ColumnsOf(rows, k - 1)
       IN IF rows[k].column \in Range(cs) THEN cs ELSE Append(cs, rows[k].column)

\* the sum of rows[i].value over the indexes i of I
RECURSIVE SumValues(_, _)
SumValues(rows, I) ==
  IF I = {} THEN 0
  ELSE LET i == CHOOSE x \in I : TRUE
       IN rows[i].value + SumValues(rows, I \ {i})

\* a cell without value
NaN == [sum |-> 0, n |-> 0]

\* groupby(...).first(): the first value of the group
GroupByMean_first(rows) ==
  LET keys == {<<rows[i].problem, rows[i].run>> : i \in DOMAIN rows}
      cols == ColumnsOf(rows, Len(rows))
      In(k, c) == {i \in DOMAIN rows :
                     <<rows[i].problem, rows[i].run>> = k /\ rows[i].column = c}
      First(I) == CHOOSE i \in I : \A j \in I : i <= j
  IN [columns |-> cols,
      index |-> keys,
      cell |-> [k \in keys |-> [c \in Range(cols) |->
                  IF In(k, c) = {} THEN NaN
                  ELSE [sum |-> rows[First(In(k, c))].value, n |-> 1]]]]

\* df.groupby(['problem', 'run']).mean(): one row per (problem, run); a cell
\* is the mean sum/n of the values of its column in the group, NaN when the
\* group has none
GroupByMean(rows) ==
  LET keys == {<<rows[i].problem, rows[i].run>> : i \in DOMAIN rows}
      cols == ColumnsOf(rows, Len(rows))
      In(k, c) == {i \in DOMAIN rows :
                     <<rows[i].problem, rows[i].run>> = k /\ rows[i].column = c}
  IN [columns |-> cols,
      index |-> keys,
      cell |-> [k \in keys |-> [c \in Range(cols) |->
                  IF In(k, c) = {} THEN NaN
                  ELSE [sum |-> SumValues(rows, In(k, c)), n |-> Cardinality(In(k, c))]]]]

\* df = pd.DataFrame()
StartTables ==
  /\ tpc = "ready"
  /\ tpc' = "walk"
  /\ tdirs_left' = tree
  /\ df' = <<>>
  /\ UNCHANGED table
  /\ UNCHANGED <<evars, svars, cvars, avars>>

\* one directory of os.walk: every filename of the listing is visited, in
\* the listing's order; the names without 'QI' are passed over and the lines
\* of the others are appended to df
TableDir(d) ==
  /\ tpc = "walk"
  /\ d \in tdirs_left
  /\ tdirs_left' = tdirs_left \ {d}
  /\ \E fs \in Orders({f \in FileNames(d) : ContainsQI(f)}) :
       df' = df \o RowsOfFiles(d, fs, Len(fs))
  /\ UNCHANGED <<tpc, table>>
  /\ UNCHANGED <<evars, svars, cvars, avars>>

\* df = df.groupby(['problem', 'run']).mean(); return df
\* An empty data frame has no column 'problem': groupby raises KeyError.
GroupTables ==
  /\ tpc = "walk"
  /\ tdirs_left = {}
  /\ IF df = <<>>
       THEN tpc' = "raised" /\ UNCHANGED table
       ELSE tpc' = "returned" /\ table' = GroupByMean(df)
  /\ UNCHANGED <<tdirs_left, df>>
  /\ UNCHANGED <<evars, svars, cvars, avars>>

\* the trees of indicator files: at most MaxFiles files of at most MaxLines
\* lines each
QITrees ==
  {t \in [Dirs -> [IndicatorNames -> UNION {[1..k -> Vals] : k \in 0..MaxLines}]] :
     Cardinality({x \in Dirs \X IndicatorNames : t[x[1]][x[2]] # <<>>}) <= MaxFiles}

NextTables ==
  \/ StartTables
  \/ \E d \in Dirs : TableDir(d)
  \/ GroupTables

\* ========================================== compute_statistical_analysis
MaxCols == 3
TableRuns == 2

\* the significance level, in hundredths: pvalue < 0.05
Alpha == 5
\* the p-values a test can return, in hundredths
PValues == {1, 5, 9}
\* the values of the cells of an experiment data frame
StatVals == {1, 2}
\* column labels of an experiment data frame
ColumnNames == <<<<"QI", "HV">>, <<"QI", "IGD">>, <<"QI", "EP">>, <<"QI", "GD">>, <<"QI", "SP">>>>
\* the order of the problem names in a sorted index
ProblemOrder == <<"ZDT1", "ZDT2">>

\* the values of the rows of problem p lie above those of the problems before it
ProblemShift(p) ==
  (CHOOSE i \in DOMAIN ProblemOrder : ProblemOrder[i] = p) * Cardinality(StatVals)

\* the experiment data frames: index (problem, run), up to MaxCols columns;
\* the cells of a problem are a run-by-column pattern of values
StatTables ==
  UNION {
    {[columns |-> SubSeq(ColumnNames, 1, k),
      index |-> P \X (0..(TableRuns - 1)),
      cell |-> [x \in P \X (0..(TableRuns - 1)) |->
                  [n \in {ColumnNames[j] : j \in 1..k} |-> c[x[2]][n] + ProblemShift(x[1])]]] :
       c \in [0..(TableRuns - 1) -> [{ColumnNames[j] : j \in 1..k} -> StatVals]]} :
    k \in 0..MaxCols, P \in SUBSET Problems \ {{}}}

\* the elements of a set of integers in increasing order
RECURSIVE Sorted(_)
Sorted(S) ==
  IF S = {} THEN <<>>
  ELSE LET lo == CHOOSE x \in S : \A y \in S : x <= y
       IN <<lo>> \o Sorted(S \ {lo})

\* the runs of the group of problem p, in index order
GroupRuns(t, p) == Sorted({k[2] : k \in {x \in t.index : x[1] = p}})

\* subset[subset.columns[j]]: the values of column j over the runs of the group
ColumnSeries(t, p, j) ==
  LET runs == GroupRuns(t, p)
  IN [i \in DOMAIN runs |-> t.cell[<<p, runs[i]>>][t.columns[j]]]

\* subset.values.tolist(): one list per row of the group, each holding the
\* row's values over the columns
RowLists(t, p) ==
  LET runs == GroupRuns(t, p)
  IN [i \in DOMAIN runs |-> [j \in DOMAIN t.columns |-> t.cell[<<p, runs[i]>>][t.columns[j]]]]

\* the guard with the bound one too low
TooFewColumns_one(t) == Len(t.columns) < 1
\* if len(df.columns) < 2: raise Exception(...)
TooFewColumns(t) == Len(t.columns) < 2

\* the signed-rank test taken for every admitted column count
UsesWilcoxon_always(t) == Len(t.columns) >= 2
\* if len(df.columns) == 2: ... else: ...
UsesWilcoxon(t) == Len(t.columns) = 2

\* '*' if pvalue < 0.05 else '-'
Mark(pvalue) == IF pvalue < Alpha THEN "*" ELSE "-"

\* the first group of df.groupby(level=0) not yet visited
NextGroup == ProblemOrder[CHOOSE i \in DOMAIN ProblemOrder :
                            /\ ProblemOrder[i] \in groups_left
                            /\ \A j \in 1..(i - 1) : ProblemOrder[j] \notin groups_left]

\* the column-count check and result = pd.DataFrame()
StartAnalysis ==
  /\ apc = "ready"
  /\ tpc = "returned"
  /\ IF TooFewColumns(table)
       THEN apc' = "raised" /\ UNCHANGED groups_left
       ELSE apc' = "groups" /\ groups_left' = {k[1] : k \in table.index}
  /\ result' = <<>>
  /\ UNCHANGED samples
  /\ UNCHANGED <<evars, svars, cvars, tvars>>

\* statistic, pvalue = stats.wilcoxon(subset[subset.columns[0]], subset[subset.columns[1]])
\* and the row appended to result
TestWilcoxon ==
  /\ apc = "groups"
  /\ groups_left # {}
  /\ UsesWilcoxon(table)
  /\ LET p == NextGroup IN
       /\ samples' = <<ColumnSeries(table, p, 1), ColumnSeries(table, p, 2)>>
       /\ groups_left' = groups_left \ {p}
       /\ \E pvalue \in PValues :
            result' = Append(result, [problem |-> p, column |-> "Wilcoxon",
                                      mark |-> Mark(pvalue), pvalue |-> pvalue])
  /\ UNCHANGED apc
  /\ UNCHANGED <<evars, svars, cvars, tvars>>

\* statistic, pvalue = stats.kruskal(*subset.values.tolist())
\* and the row appended to result
TestKruskal ==
  /\ apc = "groups"
  /\ groups_left # {}
  /\ ~UsesWilcoxon(table)
  /\ LET p == NextGroup IN
       /\ samples' = RowLists(table, p)
       /\ groups_left' = groups_left \ {p}
       /\ \E pvalue \in PValues :
            result' = Append(result, [problem |-> p, column |-> "Kruskal-Wallis",
                                      mark |-> Mark(pvalue), pvalue |-> pvalue])
  /\ UNCHANGED apc
  /\ UNCHANGED <<evars, svars, cvars, tvars>>

\* return result
ReturnResult ==
  /\ apc = "groups"
  /\ groups_left = {}
  /\ apc' = "returned"
  /\ UNCHANGED <<groups_left, samples, result>>
  /\ UNCHANGED <<evars, svars, cvars, tvars>>

NextAnalysis ==
  \/ StartAnalysis
  \/ TestWilcoxon
  \/ TestKruskal
  \/ ReturnResult

\* ======================================================= specifications
\* Experiment.run; compute_quality_indicator is not called
InitE == InitExperiment /\ fronts = {} /\ bad = NoBad /\ tree = Dirs /\ ScanReady /\ OneCaller
         /\ NoTable /\ NoAnalysis
SpecExperiment == InitE /\ [][NextExperiment]_vars

\* compute_quality_indicator; no experiment is run
InitS == InitScan /\ jobs = <<>> /\ m_workers = 1 /\ ExperimentReady
SpecScan == InitS /\ [][NextScan]_vars

\* compute_quality_indicator called twice on a tree of two problem
\* directories with well-formed artifacts
RescanTree == {<<"NSGAII", "ZDT1">>, <<"NSGAII", "ZDT2">>}
InitR ==
  /\ fronts \in SUBSET Problems
  /\ bad = NoBad
  /\ tree = RescanTree
  /\ ScanReady
  /\ OneCaller
  /\ NoTable
  /\ NoAnalysis
  /\ jobs = <<>> /\ m_workers = 1 /\ ExperimentReady
NextRescan == NextScan \/ CallAgain
SpecRescan == InitR /\ [][NextRescan]_vars

\* two invocations of compute_quality_indicator run concurrently on a tree
\* of one directory, reference_fronts left at its default '' (no .pf file)
SharedTree == {<<"NSGAII", "ZDT1">>}
InitC ==
  /\ fronts = {}
  /\ bad = NoBad
  /\ tree = SharedTree
  /\ ScanReady
  /\ OneCaller
  /\ NoTable
  /\ NoAnalysis
  /\ jobs = <<>> /\ m_workers = 1 /\ ExperimentReady
NextConcurrent == NextScan \/ ContextSwitch
SpecConcurrent == InitC /\ [][NextConcurrent]_vars

\* create_tables_from_experiment over a tree of indicator files
InitT ==
  /\ qi \in QITrees
  /\ qi_exists = [d \in Dirs |-> [n \in IndicatorNames |-> qi[d][n] # <<>>]]
  /\ fronts = {}
  /\ bad = NoBad
  /\ tree = Dirs
  /\ spc = "done"
  /\ cur_dir = <<"", "">>
  /\ todo = {}
  /\ dirs_left = {}
  /\ cur_file = <<>>
  /\ ind_i = 0
  /\ reference_front = [i \in DOMAIN Indicators |-> NoFront]
  /\ handle = Closed
  /\ OneCaller
  /\ NoTable
  /\ NoAnalysis
  /\ jobs = <<>> /\ m_workers = 1 /\ ExperimentReady
SpecTables == InitT /\ [][NextTables]_vars

\* compute_statistical_analysis on an experiment data frame
InitA ==
  /\ table \in StatTables
  /\ tpc = "returned"
  /\ tdirs_left = {}
  /\ df = <<>>
  /\ NoAnalysis
  /\ fronts = {}
  /\ bad = NoBad
  /\ tree = Dirs
  /\ ScanReady
  /\ OneCaller
  /\ jobs = <<>> /\ m_workers = 1 /\ ExperimentReady
SpecAnalysis == InitA /\ [][NextAnalysis]_vars

\* =============================================================== claims
\* the artifacts job j has written
WrittenBy(j) == {f \in ArtifactNames : j \in Range(disk[f])}
TimesWritten(j, f) == Cardinality({i \in DOMAIN disk[f] : disk[f][i] = j})

\* C3: during Experiment.run the number of jobs whose execute is in progress
\* never exceeds m_workers, and when no job failed every job has finished
\* execute, both artifacts written, once run() has returned.
C3_BoundedAndComplete ==
  /\ Cardinality(InProgress) <= m_workers
  /\ (pc = "returned" /\ \A j \in JobIds : phase[j] # "failed")
       => \A j \in JobIds :
            /\ phase[j] = "done"
            /\ WrittenBy(j) = {FunFileName(jobs[j]), VarFileName(jobs[j])}

C3_Witness ==
  /\ pc = "returned"
  /\ Len(jobs) > m_workers
  /\ \A j \in JobIds : phase[j] = "done"

\* C4: Experiment.run performs no job's work on the caller's thread, and what
\* it hands to the pool is the not-yet-executed callable.
C4_NoWorkOnCallerThread ==
  /\ \A j \in JobIds : thread[j] # "caller"
  /\ \A i \in DOMAIN work_items : work_items[i].fn # 0

\* C5: run() does not return normally when a job's algorithm has raised: the
\* failure leaves run() as the exception of that job.
C5_FailureObservable ==
  /\ pc = "returned" => \A j \in JobIds : phase[j] # "failed"
  /\ (\E j \in JobIds : phase[j] = "failed") => (raised # 0 /\ phase[raised] = "failed")

C5_Witness ==
  /\ pc = "raised"
  /\ raised > 1
  /\ phase[raised] = "failed"

\* a pending job's execute starts
JobStarts ==
  /\ NextExperiment
  /\ \E j \in JobIds : phase[j] = "pending" /\ phase'[j] = "started"

\* C6: with m_workers >= 2, whenever fewer than m_workers jobs are in progress
\* and a job is pending, a pending job can start at once, without waiting for
\* a running job submitted earlier.
C6_NoHeadOfLineBlocking ==
  (/\ pc \in {"loop", "execute"}
   /\ m_workers >= 2
   /\ Cardinality(InProgress) < m_workers
   /\ \E j \in JobIds : phase[j] = "pending")
  => ENABLED JobStarts

DistinctJobs == \A a, b \in JobIds : a # b => jobs[a] # jobs[b]

\* C8: with pairwise distinct (algorithm_tag, run) pairs, no artifact is
\* written by more than one job.
C8_NoOverwrite ==
  DistinctJobs => \A f \in ArtifactNames : Len(disk[f]) <= 1

\* the FUN files of the tree that parse and have a run identifier
WellFormed(d, filename) == ~(bad.kind # "none" /\ bad.dir = d /\ bad.name = filename)
\* QI.<n> of directory d holds a line computed from filename
HasLine(d, n, filename) == \E i \in DOMAIN qi[d][n] : qi[d][n][i].name = filename
\* the inner loop has reached filename of directory d
Visited(d, filename) == d \notin dirs_left /\ ~(d = cur_dir /\ filename \in todo)
\* the run identifier of the file a line was computed from
RunOf(line) == LET digits == DigitTokens(line.name) IN digits[Len(digits)]

\* every filename of directory d has been through the inner loop
DirScanned(d) ==
  /\ d \notin dirs_left
  /\ d = cur_dir => (todo = {} /\ spc \in {"files", "walk", "done"})

\* C1: once the FUN files of runs 0..N-1 of a directory have been processed,
\* starting without QI files and whatever the order of the visits, line i of
\* each QI file of the directory holds the value computed from FUN.<i>.ps.
C1_LineIsRun ==
  \A d \in Dirs, n \in IndicatorNames :
    (DirScanned(d) /\ bad.dir # d) =>
      \A r \in ScanRuns :
        /\ Len(qi[d][n]) > r
        /\ qi[d][n][r + 1].dir = d
        /\ qi[d][n][r + 1].name = FunName(r)

\* C2: at every moment of a scan the lines of a QI file are in increasing
\* order of run identifier.
C2_LinesInRunOrder ==
  \A d \in Dirs, n \in IndicatorNames :
    \A a, b \in DOMAIN qi[d][n] :
      a < b => RunOf(qi[d][n][a]) < RunOf(qi[d][n][b])

\* C9: a missing <problem>.pf does not fail the scan, the value is written,
\* and it is computed without a reference front, in particular not with the
\* front bound earlier for another problem.
C9_MissingFrontComputedWithout ==
  /\ spc = "raised" => bad # NoBad
  /\ (spc = "done" /\ bad = NoBad) =>
       \A d \in Dirs, n \in IndicatorNames, r \in ScanRuns : HasLine(d, n, FunName(r))
  /\ \A d \in Dirs, n \in IndicatorNames :
       \A i \in DOMAIN qi[d][n] :
         d[2] \notin fronts => qi[d][n][i].front = NoFront

\* C10 as stated: when the scan has ended, with or without a malformed file,
\* every well-formed FUN file has its value in each QI file of its directory.
C10_OtherFilesStillScanned ==
  spc \in {"done", "raised"} =>
    \A d \in Dirs, n \in IndicatorNames, r \in ScanRuns :
      WellFormed(d, FunName(r)) => HasLine(d, n, FunName(r))

\* C10 amended: a malformed FUN file ends the scan. Once the loop has reached
\* it, it stays the current file until the error leaves the function, it
\* gets no line, and a well-formed FUN file has its lines exactly when it was
\* visited before.
C10_MalformedAbortsScan ==
  (bad # NoBad /\ Visited(bad.dir, bad.name)) =>
    /\ cur_dir = bad.dir
    /\ cur_file = bad.name
    /\ spc \in {"indicator", "bound", "opened", "raised"}
    /\ \A n \in IndicatorNames : ~HasLine(bad.dir, n, bad.name)
    /\ \A d \in Dirs, n \in IndicatorNames, r \in ScanRuns :
         WellFormed(d, FunName(r)) =>
           (HasLine(d, n, FunName(r)) <=> Visited(d, FunName(r)))

C10_Witness ==
  /\ spc = "raised"
  /\ \E d \in Dirs, r \in ScanRuns :
       WellFormed(d, FunName(r)) /\ Visited(d, FunName(r)) /\ HasLine(d, "HV", FunName(r))
  /\ \E d \in Dirs, r \in ScanRuns :
       WellFormed(d, FunName(r)) /\ ~Visited(d, FunName(r))

\* the QI file of the current indicator computation
CurName == Indicators[ind_i].name
\* the run identifier extracted from the current filename
CurRun == LET digits == DigitTokens(cur_file) IN digits[Len(digits)]
\* the with block of one indicator computation is left normally
Appends == spc = "inserted" /\ ~handle'.open
\* s with its k-th element taken out
Without(s, k) == SubSeq(s, 1, k - 1) \o SubSeq(s, k + 1, Len(s))

\* C17: when the value of run r is written to a QI file that holds fewer than
\* r lines, the value lands on line r (a gap is left) or the computation ends
\* in an error; it is never stored on another line.
C17_GapOrError ==
  [][(Appends /\ Len(qi[cur_dir][CurName]) < CurRun) =>
       \/ spc' = "raised"
       \/ /\ Len(qi'[cur_dir][CurName]) > CurRun
          /\ qi'[cur_dir][CurName][CurRun + 1] = ComputeLine(cur_dir, cur_file, ind_i)]_vars

\* C19: one indicator computation changes the file QI.<indicator-name> of the
\* FUN file's directory and nothing else: the file gains exactly one line,
\* the lines it held stay, unchanged and in the same relative order, and no
\* other QI file, no artifact and no reference front changes.
C19_FrameOfAppend ==
  [][/\ Appends =>
          /\ Len(qi'[cur_dir][CurName]) = Len(qi[cur_dir][CurName]) + 1
          /\ \E k \in DOMAIN qi'[cur_dir][CurName] :
               /\ Without(qi'[cur_dir][CurName], k) = qi[cur_dir][CurName]
               /\ qi'[cur_dir][CurName][k] = ComputeLine(cur_dir, cur_file, ind_i)
     /\ qi' # qi => Appends
     /\ \A d \in Dirs, n \in IndicatorNames :
          (d # cur_dir \/ spc \notin {"bound", "opened", "inserted"} \/ n # CurName) =>
            (qi'[d][n] = qi[d][n] /\ qi_exists'[d][n] = qi_exists[d][n])
     /\ UNCHANGED <<bad, fronts, disk>>]_vars

C19_Witness ==
  /\ spc = "indicator"
  /\ ind_i > Len(Indicators)
  /\ \E n \in IndicatorNames :
       /\ Len(qi[cur_dir][n]) >= 2
       /\ qi[cur_dir][n][Len(qi[cur_dir][n])].name = cur_file

\* C20: when the execute of the job at position k raises, no job after k is
\* executed and none of their artifacts is written, while the jobs before k
\* have finished and their artifacts are in place.
C20_FailureStopsLoop ==
  \A k \in JobIds :
    phase[k] = "failed" =>
      /\ \A j \in JobIds : j > k => (phase[j] = "pending" /\ WrittenBy(j) = {})
      /\ \A j \in JobIds : j < k =>
           /\ phase[j] = "done"
           /\ disk[FunFileName(jobs[j])] # <<>>
           /\ disk[VarFileName(jobs[j])] # <<>>
           /\ WrittenBy(j) = {FunFileName(jobs[j]), VarFileName(jobs[j])}

C20_Witness ==
  /\ pc = "raised"
  /\ \E k \in JobIds : phase[k] = "failed" /\ k > 1 /\ k < Len(jobs)

\* the number of lines of s equal to x
Count(s, x) == Cardinality({k \in DOMAIN s : s[k] = x})

\* C11: after a second call over the unchanged artifacts, with the same
\* indicators and the QI files of the first call kept, every QI file has twice
\* the lines of the first call and every run's value is in it exactly twice.
C11_SecondScanDoubles ==
  (calls = "second" /\ spc = "done") =>
    \A d \in tree, n \in IndicatorNames :
      /\ Len(qi[d][n]) = 2 * NumRuns
      /\ \A i \in DOMAIN qi[d][n] : Count(qi[d][n], qi[d][n][i]) = 2

\* the second invocation has the QI file of the running one open
BothInside ==
  /\ handle.open
  /\ other.handle.open
  /\ other.cur_dir = cur_dir
  /\ other.ind_i = ind_i

\* C18: the steps of two concurrent invocations on one QI file never
\* interleave, and when both have ended the file holds one line for every
\* value either of them computed, none lost and none duplicated.
C18_GuardedReadModifyWrite ==
  /\ ~BothInside
  /\ (spc = "done" /\ other.spc = "done") =>
       \A d \in tree, n \in IndicatorNames, r \in ScanRuns :
         Cardinality({k \in DOMAIN qi[d][n] : qi[d][n][k].name = FunName(r)}) = 2

\* the indicator files of the tree: (directory, indicator name) pairs
QIFiles == {x \in tree \X IndicatorNames : qi_exists[x[1]][x[2]]}
\* the directories whose file QI.<n> has a line for run r of problem p
Holding(p, r, n) == {d \in tree : d[2] = p /\ qi_exists[d][n] /\ Len(qi[d][n]) > r}
\* the sum over the directories of D of the value on line r of QI.<n>
RECURSIVE SumLines(_, _, _)
SumLines(D, r, n) ==
  IF D = {} THEN 0
  ELSE LET d == CHOOSE x \in D : TRUE
       IN ParseFloat(qi[d][n][r + 1]) + SumLines(D \ {d}, r, n)

\* C12: over a tree with one indicator file of N values, for algorithm A and
\* problem P, the table has exactly the rows (P, 0)..(P, N-1), row (P, i)
\* holding the value of line i under a column that identifies algorithm A.
C12_ColumnIsAlgorithm ==
  (tpc = "returned" /\ Cardinality(QIFiles) = 1) =>
    \A x \in QIFiles :
      LET d == x[1]
          lines == qi[d][x[2]]
      IN /\ table.index = {<<d[2], i - 1>> : i \in DOMAIN lines}
         /\ \E c \in Range(table.columns) :
              /\ \E t \in DOMAIN c : c[t] = d[1]
              /\ \A i \in DOMAIN lines :
                   table.cell[<<d[2], i - 1>>][c] = [sum |-> ParseFloat(lines[i]), n |-> 1]

\* C13: the table has exactly one row per distinct (problem, run) of the
\* indicator-file lines, and a cell is the arithmetic mean of the values of
\* all lines with its (problem, run) and its column, over the algorithm
\* directories of the problem.
C13_RowsAndMeans ==
  tpc = "returned" =>
    /\ table.index = {<<x[1][1][2], x[2] - 1>> :
                         x \in {y \in QIFiles \X (1..MaxLines) :
                                  y[2] <= Len(qi[y[1][1]][y[1][2]])}}
    /\ Range(table.columns) = {<<"QI", x[2]>> : x \in QIFiles}
    /\ \A k \in table.index, n \in {x[2] : x \in QIFiles} :
         LET D == Holding(k[1], k[2], n)
         IN table.cell[k][<<"QI", n>>] =
              IF D = {} THEN NaN
              ELSE [sum |-> SumLines(D, k[2], n), n |-> Cardinality(D)]

C13_Witness ==
  /\ tpc = "returned"
  /\ \E k \in table.index, c \in Range(table.columns) :
       /\ table.cell[k][c].n = 2
       /\ table.cell[k][c].sum = 3
  /\ \E k \in table.index, c \in Range(table.columns) : table.cell[k][c] = NaN

\* C14: with fewer than 2 columns compute_statistical_analysis ends in an
\* error and gives no verdict table, not even an empty one.
C14_TooFewColumnsRaises ==
  (apc # "ready" /\ Len(table.columns) < 2) =>
    /\ apc = "raised"
    /\ result = <<>>
    /\ samples = <<>>

C14_Witness ==
  /\ apc = "raised"
  /\ Len(table.columns) = 1
  /\ table.index # {}

\* the problems of the input data frame
TableProblems == {k[1] : k \in table.index}

\* C15: the column count alone selects the test: the verdict column is
\* 'Wilcoxon' with 2 columns and 'Kruskal-Wallis' with 3 or more; the verdict
\* table has one row per problem of the input, and a cell is '*' when the
\* p-value is below 0.05 and '-' otherwise.
C15_TestSelection ==
  /\ \A i \in DOMAIN result :
       /\ Len(table.columns) = 2 => result[i].column = "Wilcoxon"
       /\ Len(table.columns) >= 3 => result[i].column = "Kruskal-Wallis"
       /\ result[i].mark = (IF result[i].pvalue < 5 THEN "*" ELSE "-")
       /\ \A j \in DOMAIN result : i # j => result[i].problem # result[j].problem
  /\ apc = "returned" =>
       /\ {result[i].problem : i \in DOMAIN result} = TableProblems
       /\ Len(result) = Cardinality(TableProblems)

C15_Witness ==
  /\ apc = "returned"
  /\ Len(table.columns) = 3
  /\ Len(result) = 2
  /\ result[1].mark = "*"
  /\ result[2].mark = "-"
  /\ result[2].pvalue = 5

\* C16: with 3 or more columns the samples handed to the Kruskal-Wallis test
\* for a problem are the columns: one sample per column, holding the column's
\* values over the runs of the problem.
C16_KruskalSamplesAreColumns ==
  (Len(table.columns) >= 3 /\ result # <<>>) =>
    samples = [j \in DOMAIN table.columns |->
                 ColumnSeries(table, result[Len(result)].problem, j)]

====
